---- MODULE Spec2Model ----
(***************************************************************************)
(* Model of 06_4주차/plot.py: the CVAE classes (Encoder, Decoder, CVAE),   *)
(* loss_function, and the top-level script (load, partition, one-hot       *)
(* labels, averaging, scaler passes, evaluation).                          *)
(*                                                                         *)
(* Numbers.  Floating point values are modelled in fixed point:            *)
(*   - network activations in units of 1/FP;                               *)
(*   - loss terms in units of 1/LossOne (half of 1e-8), so that the        *)
(*     1e-8 of line 173 and the factor 0.5 are both exact;                 *)
(*   - waveform values in units of 1/WaveOne, so that /524 is exact on     *)
(*     sums of loaded values.                                              *)
(* Tensors of the network are represented by one value per batch element   *)
(* (a waveform constant along time and channels, away from the padding),   *)
(* together with their exact shape.                                        *)
(***************************************************************************)
EXTENDS Integers, Sequences, FiniteSets, TLC

VARIABLES
    model,       \* the CVAE object: constructor arguments and encoder.seq_len
    state_dict,  \* its parameters (weights), fixed during inference
    training,    \* nn.Module.training of the model
    bn,          \* running statistics of the eight BatchNorm1d layers
    rng,         \* state of torch's global random generator
    calls,       \* number of CVAE.forward calls made
    last,        \* the latest CVAE.forward call: its inputs and what it returned
    prev,        \* the call before it
    loss,        \* the latest loss_function call: its inputs and result
    pc,          \* the script's position
    cfg,         \* what the files on disk hold (sample counts, values)
    X,           \* X1..X4: per system, the loaded samples
    Y,           \* Y1..Y4: per system, the status column Y[:,1]
    labels,      \* labels1..labels4
    Xnormal,     \* Xnormal_RFQ..Xnormal_SCL
    Xanomaly,    \* Xanomaly_RFQ..Xanomaly_SCL
    labels_one_hot,
    Xnormal_concat,
    Xnormal_concat_tmp,
    avg_RFQ_Xnormal,  \* "none", its own buffer, or a view of Xnormal_RFQ[:1]
    scalers,     \* the nine scaler instances: times fitted and fitted parameters
    fitParams,   \* per channel, the parameters fit_transform used at lines 412-420
    testParams,  \* per channel, the parameters transform used at lines 430-438
    data_test,
    condition,   \* the condition tensor of line 466
    steps        \* the steps of the pipeline completed so far, in order

cvaeVars == <<model, state_dict, training, bn, rng, calls, last, prev>>
dataVars == <<cfg, X, Y, labels, Xnormal, Xanomaly, labels_one_hot, Xnormal_concat,
              Xnormal_concat_tmp, avg_RFQ_Xnormal, scalers, fitParams, testParams,
              data_test, condition, steps>>
scriptVars == <<pc, dataVars>>
vars == <<cvaeVars, loss, scriptVars>>

(***************************************************************************)
(* Bounds of the model.                                                    *)
(***************************************************************************)
MaxBatch == 2
MaxCalls == 2
MaxLatent == 2
MaxElems == 2

(***************************************************************************)
(* Program constants.                                                      *)
(***************************************************************************)
seed == 42
conv_channels == 128
kernel_size == 12
padding == 6
pool_kernel == 2
pool_stride == 2
fc_width == 512
up_scale == 2
up3_size == 4501
input_dim == 14
hidden_dim == 4500
latent_dim == 512
condition_dim == 4

FP == 10 * 100
Min(a, b) == IF a < b THEN a ELSE b
Max(a, b) == IF a > b THEN a ELSE b
Clip(a, lo, hi) == Max(lo, Min(hi, a))

RECURSIVE SumSeq(_)
SumSeq(s) == IF s = <<>> THEN 0 ELSE Head(s) + SumSeq(Tail(s))

RECURSIVE SqrtSearch(_, _, _)
SqrtSearch(v, lo, hi) ==
    IF lo >= hi THEN lo
    ELSE LET mid == (lo + hi + 1) \div 2
         IN IF mid * mid <= v THEN SqrtSearch(v, mid, hi)
            ELSE SqrtSearch(v, lo, mid - 1)
ISqrt(v) == SqrtSearch(v, 0, Min(v, 46340))

(***************************************************************************)
(* Shape arithmetic of the layers (time length in, time length out).       *)
(***************************************************************************)
Conv1dLen(L) == (L + 2 * padding - (kernel_size - 1) - 1) \div 1 + 1
MaxPool1dLen(L) == (L - pool_kernel) \div pool_stride + 1
UpsampleScaleLen(L) == L * up_scale
UpsampleSizeLen(L) == up3_size
ConvTranspose1dLenBad(L) == L
ConvTranspose1dLen(L) == (L - 1) * 1 - 2 * padding + (kernel_size - 1) + 1

\* Encoder.__init__.calc_seq_len, with the literals of lines 55-60
calc_seq_len(seq_len) ==
    LET s1 == (seq_len + 2 * 6 - 12) \div 1 + 1
        s2 == (s1 - 2) \div 2 + 1
        s3 == (s2 + 2 * 6 - 12) \div 1 + 1
        s4 == (s3 - 2) \div 2 + 1
        s5 == (s4 + 2 * 6 - 12) \div 1 + 1
        s6 == (s5 - 2) \div 2 + 1
    IN s6

\* CVAE.__init__: the encoder computes seq_len, the decoder is built with it
CVAE(in_dim, seq_len, lat_dim, cond_dim) ==
    [input_dim |-> in_dim, seq_len |-> seq_len, latent_dim |-> lat_dim,
     condition_dim |-> cond_dim,
     enc_seq_len |-> calc_seq_len(seq_len),
     fc_in |-> conv_channels * calc_seq_len(seq_len),
     dec_seq_len |-> calc_seq_len(seq_len), output_dim |-> in_dim]

NoShape == <<>>

\* torch.cat([x, c], dim=-1) of a 2-D x: c must have as many dimensions and
\* as many rows
CatOk(xs, cs) == Len(cs) = Len(xs) /\ cs[1] = xs[1]

\* Encoder.forward on shapes: <<batch, channels, length>> with a condition of
\* shape cs, to <<batch, latent_dim>>
EncoderShape(m, xs, cs) ==
    IF Len(xs) # 3 \/ xs[2] # m.input_dim THEN NoShape
    ELSE LET l1 == MaxPool1dLen(Conv1dLen(xs[3]))
             l2 == MaxPool1dLen(Conv1dLen(l1))
             l3 == MaxPool1dLen(Conv1dLen(l2))
             flat == conv_channels * l3
         IN IF l1 < 1 \/ l2 < 1 \/ l3 < 1 \/ flat # m.fc_in THEN NoShape
            ELSE IF ~CatOk(<<xs[1], fc_width>>, cs) \/ cs[2] # m.condition_dim
                 THEN NoShape
                 ELSE <<xs[1], m.latent_dim>>

\* Decoder.forward on shapes: <<batch, latent_dim>> to <<batch, output_dim, length>>
DecoderShape(m, zs, cs) ==
    IF Len(zs) # 2 \/ zs[2] # m.latent_dim THEN NoShape
    ELSE IF ~CatOk(zs, cs) \/ cs[2] # m.condition_dim THEN NoShape
    ELSE LET l0 == (conv_channels * m.dec_seq_len) \div conv_channels
             l1 == ConvTranspose1dLen(UpsampleScaleLen(l0))
             l2 == ConvTranspose1dLen(UpsampleScaleLen(l1))
             l3 == ConvTranspose1dLen(UpsampleSizeLen(l2))
         IN <<zs[1], m.output_dim, l3>>

\* CVAE.forward on shapes
ForwardShape(m, xs, cs) ==
    LET es == EncoderShape(m, xs, cs)
    IN IF es = NoShape THEN NoShape ELSE DecoderShape(m, es, cs)

(***************************************************************************)
(* Values.  A tensor is a sequence with one value per batch element.       *)
(***************************************************************************)
BNLayers == {"e_bn1", "e_bn2", "e_bn3", "e_bn0", "d_bn0", "d_bn1", "d_bn2", "d_bn3"}

\* nn.BatchNorm1d at construction: running_mean 0, running_var 1
BNInit == [l \in BNLayers |-> [mean |-> 0, var |-> FP]]

\* torch.manual_seed(seed): the generator state after seeding
RngMod == 4 * 5
RngSeeded == seed % RngMod
RngNext(r) == (r + 7) % RngMod
RECURSIVE RngSkip(_, _)
RngSkip(r, k) == IF k = 0 THEN r ELSE RngSkip(RngNext(r), k - 1)
\* one standard normal draw, and one Bernoulli(1 - p) draw, from state r
Randn(r) == (((r \div 5) % 3) - 1) * FP
KeepDraw(r) == r % 5 # 0

\* Linear / Conv1d / ConvTranspose1d on a constant tensor: weight sum times value plus bias
Affine(w, b, h) == [j \in DOMAIN h |-> w * h[j] + b]
Relu(h) == [j \in DOMAIN h |-> Max(0, h[j])]
\* MaxPool1d and nearest Upsample keep the value of a tensor constant along time
KeepValue(h) == h

\* torch.sigmoid, tabulated at the integers -4..4 (units of 1/FP)
SigmoidTable == <<18, 47, 119, 269, 500, 731, 881, 953, 982>>
Sigmoid(h) == [j \in DOMAIN h |-> SigmoidTable[Clip(h[j] \div FP, -4, 4) + 5]]

\* torch.exp(0.5 * logvar), tabulated at 0.5 * logvar in {-2, -1.5, .., 2}
ExpHalfTable == <<135, 223, 368, 607, 1000, 1649, 2718, 4482, 7389>>
ExpHalf(h) == [j \in DOMAIN h |-> ExpHalfTable[Clip((h[j] * 2) \div FP, -4, 4) + 5]]

\* torch.cat([x, c], dim=-1) followed by a linear map: the condition adds its term
CondTerm(c) == (c + 1) * (FP \div 10)
CatCond(h, c) == [j \in DOMAIN h |-> h[j] + CondTerm(c)]

\* A context threads what a layer may read and write: the activation h, the
\* generator state and the BatchNorm running statistics.
Ctx(h, r, b) == [h |-> h, rng |-> r, bn |-> b]

\* F applied to the value of v (v is evaluated once)
With(v, F(_)) == CHOOSE out \in {F(c) : c \in {v}} : TRUE

\* the stateless layers, lifted to contexts
AffineL(ctx, w, b) == LET F(c) == [c EXCEPT !.h = Affine(w, b, c.h)] IN With(ctx, F)
ReluL(ctx) == LET F(c) == [c EXCEPT !.h = Relu(c.h)] IN With(ctx, F)
KeepValueL(ctx) == LET F(c) == [c EXCEPT !.h = KeepValue(c.h)] IN With(ctx, F)
SigmoidL(ctx) == LET F(c) == [c EXCEPT !.h = Sigmoid(c.h)] IN With(ctx, F)
CatCondL(ctx, cond) == LET F(c) == [c EXCEPT !.h = CatCond(c.h, cond)] IN With(ctx, F)

BatchMean(h) == SumSeq(h) \div Len(h)
BatchVar(h) ==
    LET m == BatchMean(h)
    IN SumSeq([j \in DOMAIN h |-> ((h[j] - m) * (h[j] - m)) \div FP]) \div Len(h)
Normalize(h, mean, var) ==
    [j \in DOMAIN h |-> ((h[j] - mean) * FP) \div Max(1, ISqrt(var * FP))]

\* BatchNorm1d.forward with momentum 0.1: in training mode it normalises with the
\* batch statistics and updates the running ones; in evaluation mode it
\* normalises with the running statistics and writes nothing.
BNUpdatesAlways(train) == TRUE
BNUpdates(train) == train
BNUsesBatch(train) == train
BatchNorm(ctx, layer, train) ==
    LET F(c) ==
          LET run == c.bn[layer]
              bm == BatchMean(c.h)
              bv == BatchVar(c.h)
              new == [mean |-> (9 * run.mean + bm) \div 10,
                      var |-> (9 * run.var + bv) \div 10]
              out == IF BNUsesBatch(train) THEN Normalize(c.h, bm, bv)
                     ELSE Normalize(c.h, run.mean, run.var)
          IN [c EXCEPT !.h = out,
                       !.bn = IF BNUpdates(train) THEN [c.bn EXCEPT ![layer] = new]
                              ELSE c.bn]
    IN With(ctx, F)

\* nn.Dropout(p=0.2).forward: in training mode each element is zeroed with
\* probability p and the kept ones are scaled by 1/(1-p); identity otherwise.
dropout_tenths == 2
DropoutScale(v) == (v * 10) \div (10 - dropout_tenths)
DropoutActive(train) == train
Dropout(ctx, train) ==
    LET F(c) ==
          IF DropoutActive(train)
          THEN [c EXCEPT !.h = [j \in DOMAIN c.h |->
                                   IF KeepDraw(RngSkip(c.rng, j - 1))
                                   THEN DropoutScale(c.h[j]) ELSE 0],
                         !.rng = RngSkip(c.rng, Len(c.h))]
          ELSE c
    IN With(ctx, F)

\* F.batch_norm in training mode raises when its input holds one value per
\* channel: the 2-D input of Encoder.bn0 (line 99) at batch size 1
BNRejects(train, batch) == train /\ batch = 1

\* Encoder.forward, lines 73-91 (values): the three CNN blocks
EncoderConv(sd, x, train, r, b) ==
    LET \* CNN block 1: conv1, bn1, pool1, relu, conv1_dropout
        b1 == Dropout(ReluL(KeepValueL(BatchNorm(
                  AffineL(Ctx(x, r, b), sd.conv_w, sd.conv_b), "e_bn1", train))), train)
        \* CNN block 2
        b2 == Dropout(ReluL(KeepValueL(BatchNorm(
                  AffineL(b1, sd.conv_w, sd.conv_b), "e_bn2", train))), train)
        \* CNN block 3
    IN Dropout(ReluL(KeepValueL(BatchNorm(
                  AffineL(b2, sd.conv_w, sd.conv_b), "e_bn3", train))), train)

\* Encoder.forward (values): mu and logvar, and the context it leaves
EncoderForward(sd, x, cond, train, r, b) ==
    LET b3 == EncoderConv(sd, x, train, r, b)
        \* flatten, fc, cat with the condition, bn0, relu, dropout
        d0 == Dropout(ReluL(BatchNorm(
                  CatCondL(AffineL(b3, sd.fc_w, sd.fc_b), cond), "e_bn0", train)), train)
        F(c) == [ctx |-> c,
                 mu |-> Affine(sd.mu_w, sd.mu_b, c.h),
                 logvar |-> Affine(sd.lv_w, sd.lv_b, c.h)]
    IN With(d0, F)

\* CVAE.reparameterize: std = exp(0.5 logvar), eps = randn_like(std), mu + eps std
Reparameterize(mu, logvar, r) ==
    LET std == ExpHalf(logvar)
        eps == [j \in DOMAIN std |-> Randn(RngSkip(r, j - 1))]
    IN [z |-> [j \in DOMAIN mu |-> mu[j] + (eps[j] * std[j]) \div FP],
        rng |-> RngSkip(r, Len(std))]

\* Decoder.forward (values)
DecoderForward(sd, z, cond, train, r, b) ==
    LET \* cat, fc1, fc2, view, bn0, relu, dropout
        d0 == Dropout(ReluL(BatchNorm(
                  AffineL(AffineL(CatCondL(Ctx(z, r, b), cond), sd.fc_w, sd.fc_b),
                          sd.fc_w, sd.fc_b), "d_bn0", train)), train)
        \* up1, bn1, trans_conv1, relu, conv1_dropout
        d1 == Dropout(ReluL(AffineL(BatchNorm(KeepValueL(d0), "d_bn1", train),
                                    sd.dec_w, sd.dec_b)), train)
        \* up2, bn2, trans_conv2, relu, conv2_dropout
        d2 == Dropout(ReluL(AffineL(BatchNorm(KeepValueL(d1), "d_bn2", train),
                                    sd.dec_w, sd.dec_b)), train)
        \* up3, bn3, trans_conv3, sigmoid, conv3_dropout
    IN Dropout(SigmoidL(AffineL(BatchNorm(KeepValueL(d2), "d_bn3", train),
                                sd.dec_w, sd.dec_b)), train)

\* CVAE.forward (values): the triple and the state it leaves behind
CVAEForward(sd, x, cond, train, r, b) ==
    LET Dec(e) ==
          LET G(rp) ==
                LET H(d) == [x_recon |-> d.h, mu |-> e.mu, logvar |-> e.logvar,
                             rng |-> d.rng, bn |-> d.bn]
                IN With(DecoderForward(sd, rp.z, cond, train, rp.rng, e.ctx.bn), H)
          IN With(Reparameterize(e.mu, e.logvar, e.ctx.rng), G)
    IN With(EncoderForward(sd, x, cond, train, r, b), Dec)

(***************************************************************************)
(* The data of the script.  A sample is a record: w is the waveform        *)
(* (time step -> channel -> value, in units of 1/WaveOne); sys and id say  *)
(* which file and which row the sample was loaded from.  Python's 0-based  *)
(* row k is index k + 1 here; channels keep their 0-based numbers.         *)
(***************************************************************************)
MaxT == 1
MaxDataSeed == 1

normal_cap == 524
avg_count == 524
avg_divisor == 524
test_row == 525
condition_row == 524
n_features == 14

WaveOne == avg_divisor
Systems == <<"RFQ", "DTL", "CCL", "SCL">>
SystemSet == {"RFQ", "DTL", "CCL", "SCL"}
Channels == 0..(n_features - 1)
system_indices == [s \in SystemSet |->
                      CASE s = "RFQ" -> 0 [] s = "DTL" -> 1 [] s = "CCL" -> 2 [] s = "SCL" -> 3]

SetMin(S) == CHOOSE m \in S : \A v \in S : m <= v
SetMax(S) == CHOOSE m \in S : \A v \in S : m >= v

\* sum of f[lo..hi], by halves
RECURSIVE SumRange(_, _, _)
SumRange(f, lo, hi) ==
    IF lo > hi THEN 0
    ELSE IF lo = hi THEN f[lo]
    ELSE LET mid == (lo + hi) \div 2
         IN SumRange(f, lo, mid) + SumRange(f, mid + 1, hi)

\* the indices lo..hi at which f holds v, ascending (np.where(..)[0]), by halves
RECURSIVE Where(_, _, _, _)
Where(f, v, lo, hi) ==
    IF lo > hi THEN <<>>
    ELSE IF lo = hi THEN (IF f[lo] = v THEN <<lo>> ELSE <<>>)
    ELSE LET mid == (lo + hi) \div 2
         IN Where(f, v, lo, mid) \o Where(f, v, mid + 1, hi)

\* a[:n]
Take(a, n) == SubSeq(a, 1, Min(n, Len(a)))
\* a[lo:hi] with 0-based lo, hi
Slice(a, lo, hi) == SubSeq(a, lo + 1, Min(hi, Len(a)))
\* a[idx] for a sequence of indices
Index(a, idx) == [k \in 1..Len(idx) |-> a[idx[k]]]

\* what {system}.npy and {system}_labels.npy hold
FileRows(c, s) == c.nrun[s] + c.nfault
FileStatus(c, s) ==
    [j \in 1..FileRows(c, s) |-> IF c.nfault = 1 /\ j = Min(2, FileRows(c, s))
                                 THEN "Fault" ELSE "Run"]
FileValue(c, s, j, t, i) ==
    WaveOne * ((j * (i + 1) + t + system_indices[s] + c.dseed) % (i + 2))
FileWave(c, s, j) == [t \in 1..c.T |-> [i \in Channels |-> FileValue(c, s, j, t, i)]]

\* load_data(system)
load_data(c, s) ==
    [X |-> [j \in 1..FileRows(c, s) |-> [sys |-> s, id |-> j, w |-> FileWave(c, s, j)]],
     Y |-> FileStatus(c, s)]

\* create_labels(Y, system)
create_labels_zero(Yseq, system) == [j \in 1..Len(Yseq) |-> 0]
create_labels(Yseq, system) == [j \in 1..Len(Yseq) |-> system_indices[system]]

\* np.eye(len(system_indices))[labels_concat]
OneHotRows(lc) ==
    [k \in 1..Len(lc) |-> [j \in 0..(Cardinality(SystemSet) - 1) |->
                              IF j = lc[k] THEN 1 ELSE 0]]

\* the capped concatenation over the four systems, in the order of line 237/253
RECURSIVE ConcatCapped(_, _)
ConcatCapped(parts, k) ==
    IF k > Len(Systems) THEN <<>>
    ELSE Take(parts[Systems[k]], normal_cap) \o ConcatCapped(parts, k + 1)

(***************************************************************************)
(* Scalers.  MinMaxScaler keeps data_min_ and data_max_; StandardScaler    *)
(* keeps mean_ and scale_.  fits counts the calls of fit on the instance.  *)
(***************************************************************************)
ScalerNames == {"standard", "standard_IGBT", "standard_FLUX", "standard_CAP",
                "standard_MOD", "scaler_IGBT", "scaler_FLUX", "scaler_CAP", "scaler_MOD"}
Unfitted == [fits |-> 0, params |-> <<>>]

\* the channel groups of the if-chains
Group(i) == IF i <= 5 THEN "IGBT" ELSE IF i <= 8 THEN "FLUX"
            ELSE IF i <= 10 THEN "CAP" ELSE "MOD"
\* the instance a pass uses on channel i
ScalerOf(pass, i) ==
    CASE pass = "standard" -> "standard"
      [] pass = "minmax" -> IF Group(i) = "IGBT" THEN "scaler_IGBT"
                            ELSE IF Group(i) = "FLUX" THEN "scaler_FLUX"
                            ELSE IF Group(i) = "CAP" THEN "scaler_CAP" ELSE "scaler_MOD"
      [] pass = "standard_group" ->
                            IF Group(i) = "IGBT" THEN "standard_IGBT"
                            ELSE IF Group(i) = "FLUX" THEN "standard_FLUX"
                            ELSE IF Group(i) = "CAP" THEN "standard_CAP" ELSE "standard_MOD"
IsMinMax(name) == name \in {"scaler_IGBT", "scaler_FLUX", "scaler_CAP", "scaler_MOD"}

\* A[:,:,i].reshape(-1, 1): the values of channel i, row by row
Column(A, i) ==
    LET T == IF Len(A) = 0 THEN 0 ELSE Len(A[1].w)
    IN [n \in 1..(Len(A) * T) |-> A[((n - 1) \div T) + 1].w[((n - 1) % T) + 1][i]]
ColumnSet(A, i) == {A[k].w[t][i] : k \in 1..Len(A), t \in 1..(IF Len(A) = 0 THEN 0 ELSE Len(A[1].w))}

\* MinMaxScaler.fit and .transform
MinMaxFit(A, i) == [min |-> SetMin(ColumnSet(A, i)), max |-> SetMax(ColumnSet(A, i))]
MinMaxTransform(p, v) ==
    ((v - p.min) * WaveOne) \div (IF p.max = p.min THEN 1 ELSE p.max - p.min)

\* StandardScaler.fit and .transform
StandardFit(A, i) ==
    LET F(col) ==
          LET n == Len(col)
              mean == SumRange(col, 1, n) \div n
              sq == [k \in 1..n |-> ((col[k] - mean) * (col[k] - mean)) \div WaveOne]
              var == SumRange(sq, 1, n) \div n
              sd == ISqrt(var * WaveOne)
          IN [mean |-> mean, scale |-> IF sd = 0 THEN WaveOne ELSE sd]
    IN With(Column(A, i), F)
StandardTransform(p, v) == ((v - p.mean) * WaveOne) \div p.scale

Fit(name, A, i) == IF IsMinMax(name) THEN MinMaxFit(A, i) ELSE StandardFit(A, i)
Transform(name, p, v) ==
    IF IsMinMax(name) THEN MinMaxTransform(p, v) ELSE StandardTransform(p, v)

\* A with channel i replaced by the transformed values
TransformColumn(name, p, A, i) ==
    [k \in 1..Len(A) |->
        [A[k] EXCEPT !.w = [t \in DOMAIN A[k].w |->
                               [A[k].w[t] EXCEPT ![i] = Transform(name, p, A[k].w[t][i])]]]]

\* one iteration of a normalisation loop:
\*   A[:,:,i] = scaler.fit_transform(A[:,:,i].reshape(-1,1)).reshape(..)
\* st holds the array A, the scaler instances sc, and the parameters used
FitTransformStep(st, pass, i) ==
    LET name == ScalerOf(pass, i)
        F(p) == [A |-> TransformColumn(name, p, st.A, i),
                 sc |-> [st.sc EXCEPT ![name] = [fits |-> @.fits + 1, params |-> p]],
                 used |-> [st.used EXCEPT ![i] = p]]
    IN With(Fit(name, st.A, i), F)

\* for i in range(len(features)): the loop from channel i on
RECURSIVE FitTransformPass(_, _, _)
FitTransformPass(st, pass, i) ==
    IF i >= n_features THEN st
    ELSE LET F(s) == FitTransformPass(FitTransformStep(s, pass, i), pass, i + 1)
         IN With(st, F)

\* one iteration of the loop of lines 430-438: data_test[:,:,i] = scaler.transform(..)
TransformStep(st, i) ==
    LET name == ScalerOf("minmax", i)
        p == st.sc[name].params
    IN [A |-> TransformColumn(name, p, st.A, i), sc |-> st.sc,
        used |-> [st.used EXCEPT ![i] = p]]

RECURSIVE TransformPass(_, _)
TransformPass(st, i) ==
    IF i >= n_features THEN st
    ELSE LET F(s) == TransformPass(TransformStep(s, i), i + 1)
         IN With(st, F)

NoParams == [i \in Channels |-> <<>>]

\* before the script has run
ScriptIdle ==
    /\ pc = "idle"
    /\ cfg = <<>>
    /\ X = <<>> /\ Y = <<>> /\ labels = <<>>
    /\ Xnormal = <<>> /\ Xanomaly = <<>>
    /\ labels_one_hot = <<>>
    /\ Xnormal_concat = <<>> /\ Xnormal_concat_tmp = <<>>
    /\ avg_RFQ_Xnormal = [kind |-> "none"]
    /\ scalers = <<>>
    /\ fitParams = NoParams /\ testParams = NoParams
    /\ data_test = <<>>
    /\ condition = <<>>
    /\ steps = <<>>

(***************************************************************************)
(* The CVAE object as a state machine.                                     *)
(***************************************************************************)
InputLens == {hidden_dim, hidden_dim - 4}
XVals == {0, FP}
Conds == {0, 1}
\* a batch of the given size: v, FP - v, v, ..
XBatch(batch, v) == [j \in 1..batch |-> IF j % 2 = 1 THEN v ELSE FP - v]
StateDicts ==
    {[conv_w |-> 1, conv_b |-> 0, fc_w |-> 1, fc_b |-> 0, mu_w |-> 1, mu_b |-> 0,
      lv_w |-> 1, lv_b |-> -FP, dec_w |-> 2, dec_b |-> 0]}

NoCall == [status |-> "none"]
NoLoss == [status |-> "none"]

CvaeInit ==
    /\ model = CVAE(input_dim, hidden_dim, latent_dim, condition_dim)
    /\ state_dict \in StateDicts
    /\ training = TRUE
    /\ bn = BNInit
    /\ rng = RngSeeded
    /\ calls = 0
    /\ last = NoCall
    /\ prev = NoCall

\* model.train() / model.eval()
ModelTrain ==
    /\ training' = TRUE
    /\ UNCHANGED <<model, state_dict, bn, rng, calls, last, prev, loss, scriptVars>>

ModelEval ==
    /\ training' = FALSE
    /\ UNCHANGED <<model, state_dict, bn, rng, calls, last, prev, loss, scriptVars>>

\* model(x, c) on a batch of shape <<batch, input_dim, len>>.  The CNN blocks
\* run first; then self.fc raises on a flattened width it was not built for
\* and self.bn0 raises on a training batch of one; otherwise the triple is
\* returned.
Forward ==
    /\ calls < MaxCalls
    /\ \E batch \in 1..MaxBatch, len \in InputLens, c \in Conds, v \in XVals :
         LET xs == <<batch, input_dim, len>>
             shape == ForwardShape(model, xs, <<batch, condition_dim>>)
         IN IF shape = NoShape \/ BNRejects(training, batch)
            THEN \E e \in {EncoderConv(state_dict, XBatch(batch, v), training, rng, bn)} :
                   /\ last' = [status |-> "error", xs |-> xs, training |-> training]
                   /\ rng' = e.rng
                   /\ bn' = e.bn
            ELSE \E out \in {CVAEForward(state_dict, XBatch(batch, v), c, training, rng, bn)} :
                   /\ last' = [status |-> "ok", x |-> XBatch(batch, v), xs |-> xs, c |-> c,
                               training |-> training, shape |-> shape,
                               x_recon |-> out.x_recon, mu |-> out.mu,
                               logvar |-> out.logvar]
                   /\ rng' = out.rng
                   /\ bn' = out.bn
    /\ prev' = last
    /\ calls' = calls + 1
    /\ UNCHANGED <<model, state_dict, training, loss, scriptVars>>

NextCVAE == ModelTrain \/ ModelEval \/ Forward

InitCVAE == CvaeInit /\ loss = NoLoss /\ ScriptIdle

SpecCVAE == InitCVAE /\ [][NextCVAE]_vars

(***************************************************************************)
(* loss_function, in units of 1/LossOne.                                   *)
(***************************************************************************)
LossOne == 2 * 10^8
\* the 1e-8 of line 173
LossEps == LossOne \div 10^8
\* logvar.exp() at logvar in {-1, 0, 1}, rounded to 1e-8
ExpTable == <<2 * 36787944, 2 * 100000000, 2 * 271828183>>
ExpL(lv) == ExpTable[lv + 2]

\* nn.functional.mse_loss(x_recon, x, reduction='sum')
MseSum(x_recon, x) ==
    SumSeq([j \in DOMAIN x |-> (x_recon[j] - x[j]) * (x_recon[j] - x[j]) * LossOne])

\* the summand of line 173: 1 + logvar - mu.pow(2) - logvar.exp() + 1e-8
KLTerm(mu, logvar, j) ==
    LossOne + logvar[j] * LossOne - mu[j] * mu[j] * LossOne - ExpL(logvar[j]) + LossEps

\* KLD = -0.5 * torch.sum(..)
KLD(mu, logvar) == (-1 * SumSeq([j \in DOMAIN mu |-> KLTerm(mu, logvar, j)])) \div 2

loss_function(x_recon, x, mu, logvar) == MseSum(x_recon, x) + 1 * KLD(mu, logvar)

LatentVals == {-1, 0, 1}
ReconVals == {0, 1}

\* loss_function runs on the arguments and returns
LossCall ==
    /\ loss.status = "called"
    /\ loss' = [status |-> "ok", x_recon |-> loss.x_recon, x |-> loss.x,
                 mu |-> loss.mu, logvar |-> loss.logvar,
                 KLD |-> KLD(loss.mu, loss.logvar),
                 value |-> loss_function(loss.x_recon, loss.x, loss.mu, loss.logvar)]
    /\ UNCHANGED <<cvaeVars, scriptVars>>

NextLoss == LossCall

\* loss_function is called with arguments drawn from the sets above
InitLoss ==
    /\ CvaeInit
    /\ ScriptIdle
    /\ \E n \in 1..MaxLatent, m \in 1..MaxElems :
       \E mu \in [1..n -> LatentVals], logvar \in [1..n -> LatentVals],
          x_recon \in [1..m -> ReconVals], x \in [1..m -> ReconVals] :
         loss = [status |-> "called", x_recon |-> x_recon, x |-> x, mu |-> mu,
                 logvar |-> logvar]

SpecLoss == InitLoss /\ [][NextLoss]_vars

(***************************************************************************)
(* The script, top to bottom.                                              *)
(***************************************************************************)
RFQCounts == {2, normal_cap, normal_cap + 2}
OtherCounts == {0, 1, normal_cap + 1}
Configs ==
    {[nrun |-> [s \in SystemSet |-> IF s = "RFQ" THEN r ELSE o],
      nfault |-> f, dseed |-> d, T |-> t] :
        r \in RFQCounts, o \in OtherCounts, f \in {0, 1}, d \in 0..MaxDataSeed,
        t \in 1..MaxT}

\* lines 1-24: imports and seeding; nothing is loaded, no model exists
ScriptInit ==
    /\ pc = "load"
    /\ cfg \in Configs
    /\ X = <<>> /\ Y = <<>> /\ labels = <<>>
    /\ Xnormal = <<>> /\ Xanomaly = <<>>
    /\ labels_one_hot = <<>>
    /\ Xnormal_concat = <<>> /\ Xnormal_concat_tmp = <<>>
    /\ avg_RFQ_Xnormal = [kind |-> "none"]
    /\ scalers = <<>>
    /\ fitParams = NoParams /\ testParams = NoParams
    /\ data_test = <<>>
    /\ condition = <<>>
    /\ steps = <<>>
    /\ model = <<>> /\ state_dict = <<>> /\ training = FALSE /\ bn = <<>>
    /\ rng = RngSeeded
    /\ calls = 0 /\ last = NoCall /\ prev = NoCall
    /\ loss = NoLoss

\* lines 192-195
Load ==
    /\ pc = "load"
    /\ X' = [s \in SystemSet |-> load_data(cfg, s).X]
    /\ Y' = [s \in SystemSet |-> load_data(cfg, s).Y]
    /\ pc' = "labels"
    /\ UNCHANGED <<cvaeVars, loss, cfg, labels, Xnormal, Xanomaly, labels_one_hot,
                   Xnormal_concat, Xnormal_concat_tmp, avg_RFQ_Xnormal, scalers,
                   fitParams, testParams, data_test, condition, steps>>

\* lines 211-214
CreateLabels ==
    /\ pc = "labels"
    /\ labels' = [s \in SystemSet |-> create_labels(Y[s], s)]
    /\ pc' = "partition"
    /\ UNCHANGED <<cvaeVars, loss, cfg, X, Y, Xnormal, Xanomaly, labels_one_hot,
                   Xnormal_concat, Xnormal_concat_tmp, avg_RFQ_Xnormal, scalers,
                   fitParams, testParams, data_test, condition, steps>>

normal_indices(s) == Where(Y[s], "Run", 1, Len(Y[s]))
fault_indices(s) == Where(Y[s], "Fault", 1, Len(Y[s]))

\* lines 217-230: indexing with an index array copies the rows
Partition ==
    /\ pc = "partition"
    /\ Xnormal' = [s \in SystemSet |-> Index(X[s], normal_indices(s))]
    /\ Xanomaly' = [s \in SystemSet |-> Index(X[s], fault_indices(s))]
    /\ pc' = "onehot"
    /\ UNCHANGED <<cvaeVars, loss, cfg, X, Y, labels, labels_one_hot,
                   Xnormal_concat, Xnormal_concat_tmp, avg_RFQ_Xnormal, scalers,
                   fitParams, testParams, data_test, condition, steps>>

\* lines 237-238
labels_concat ==
    ConcatCapped([s \in SystemSet |-> Index(labels[s], Take(normal_indices(s), normal_cap))], 1)

OneHot ==
    /\ pc = "onehot"
    /\ labels_one_hot' = OneHotRows(labels_concat)
    /\ pc' = "scalers"
    /\ UNCHANGED <<cvaeVars, loss, cfg, X, Y, labels, Xnormal, Xanomaly,
                   Xnormal_concat, Xnormal_concat_tmp, avg_RFQ_Xnormal, scalers,
                   fitParams, testParams, data_test, condition, steps>>

\* lines 241-257: the scaler instances, and the capped concatenation (a copy)
ScalersAndConcat(next) ==
    /\ pc = "scalers"
    /\ scalers' = [n \in ScalerNames |-> Unfitted]
    /\ Xnormal_concat' = ConcatCapped(Xnormal, 1)
    /\ Xnormal_concat_tmp' = ConcatCapped(Xnormal, 1)
    /\ pc' = next
    /\ UNCHANGED <<cvaeVars, loss, cfg, X, Y, labels, Xnormal, Xanomaly, labels_one_hot,
                   avg_RFQ_Xnormal, fitParams, testParams, data_test, condition, steps>>

(***************************************************************************)
(* Lines 259-293: the average of the normal RFQ samples.                   *)
(***************************************************************************)
ZeroWave(w) == [t \in DOMAIN w |-> [i \in DOMAIN w[t] |-> 0]]

\* line 259: np.zeros(Xnormal_RFQ[:1,:,:].shape), a buffer of its own
AvgZeros ==
    /\ pc = "avg_zeros"
    /\ avg_RFQ_Xnormal' =
         [kind |-> "buffer",
          rows |-> [k \in 1..Len(Take(Xnormal["RFQ"], 1)) |-> ZeroWave(Xnormal["RFQ"][k].w)]]
    /\ pc' = "avg_rebind"
    /\ UNCHANGED <<cvaeVars, loss, cfg, X, Y, labels, Xnormal, Xanomaly, labels_one_hot,
                   Xnormal_concat, Xnormal_concat_tmp, scalers, fitParams, testParams,
                   data_test, condition, steps>>

\* line 262: the name is rebound to the basic slice Xnormal_RFQ[:1,:,:], which
\* is a view: it shares the memory of Xnormal_RFQ
AvgBind == [kind |-> "view"]

AvgRebind ==
    /\ pc = "avg_rebind"
    /\ avg_RFQ_Xnormal' = AvgBind
    /\ pc' = "accumulate"
    /\ UNCHANGED <<cvaeVars, loss, cfg, X, Y, labels, Xnormal, Xanomaly, labels_one_hot,
                   Xnormal_concat, Xnormal_concat_tmp, scalers, fitParams, testParams,
                   data_test, condition, steps>>

\* the rows avg_RFQ_Xnormal denotes
AvgRows == IF avg_RFQ_Xnormal.kind = "view"
           THEN [k \in 1..Len(Take(Xnormal["RFQ"], 1)) |-> Xnormal["RFQ"][k].w]
           ELSE avg_RFQ_Xnormal.rows

\* writing rows through avg_RFQ_Xnormal: into Xnormal_RFQ when it is a view
AvgStore(rows) ==
    IF avg_RFQ_Xnormal.kind = "view"
    THEN /\ Xnormal' = [Xnormal EXCEPT !["RFQ"] =
                           [k \in 1..Len(@) |-> IF k <= Len(rows)
                                                THEN [@[k] EXCEPT !.w = rows[k]]
                                                ELSE @[k]]]
         /\ UNCHANGED avg_RFQ_Xnormal
    ELSE /\ avg_RFQ_Xnormal' = [avg_RFQ_Xnormal EXCEPT !.rows = rows]
         /\ UNCHANGED Xnormal

\* the sum over the rows lo..hi of Xnormal_RFQ, time step t, channel i
RowSumFromFirst(lo, hi, t, i) ==
    SumRange([k \in 1..hi |-> Xnormal["RFQ"][k].w[t][i]], 1, hi)
RowSum(lo, hi, t, i) ==
    SumRange([k \in 1..hi |-> Xnormal["RFQ"][k].w[t][i]], lo, hi)

\* lines 265-266: for i in range(1, 524): avg_RFQ_Xnormal += Xnormal_RFQ[i,:,:]
\* (in place; Xnormal_RFQ[i] with i >= len raises IndexError)
AccumulateLoop ==
    /\ pc = "accumulate"
    /\ LET n == Len(Xnormal["RFQ"])
           hi == Min(avg_count, n)
       IN /\ AvgStore([k \in 1..Len(AvgRows) |->
                          [t \in DOMAIN AvgRows[k] |->
                              [i \in DOMAIN AvgRows[k][t] |->
                                  AvgRows[k][t][i] + RowSum(2, hi, t, i)]]])
          /\ pc' = IF n < avg_count THEN "raised" ELSE "divide"
    /\ UNCHANGED <<cvaeVars, loss, cfg, X, Y, labels, Xanomaly, labels_one_hot,
                   Xnormal_concat, Xnormal_concat_tmp, scalers, fitParams, testParams,
                   data_test, condition, steps>>

\* lines 267-268: for i in range(0, 14): avg[:,:,i] = avg[:,:,i] / 524 (in place);
\* lines 269-291 print and plot the result
DivideLoop ==
    /\ pc = "divide"
    /\ AvgStore([k \in 1..Len(AvgRows) |->
                    [t \in DOMAIN AvgRows[k] |->
                        [i \in DOMAIN AvgRows[k][t] |-> AvgRows[k][t][i] \div avg_divisor]]])
    /\ steps' = Append(steps, "averaging")
    /\ pc' = "exit293"
    /\ UNCHANGED <<cvaeVars, loss, cfg, X, Y, labels, Xanomaly, labels_one_hot,
                   Xnormal_concat, Xnormal_concat_tmp, scalers, fitParams, testParams,
                   data_test, condition>>

\* line 293: exit()
Exit293 ==
    /\ pc = "exit293"
    /\ pc' = "exited"
    /\ UNCHANGED <<cvaeVars, loss, dataVars>>

Next ==
    \/ Load
    \/ CreateLabels
    \/ Partition
    \/ OneHot
    \/ ScalersAndConcat("avg_zeros")
    \/ AvgZeros
    \/ AvgRebind
    \/ AccumulateLoop
    \/ DivideLoop
    \/ Exit293

Init == ScriptInit

\* the script as written
Spec == Init /\ [][Next]_vars

(***************************************************************************)
(* Lines 295-411: the normalisation study.                                 *)
(***************************************************************************)
PassOn(A, pass) == FitTransformPass([A |-> A, sc |-> scalers, used |-> NoParams], pass, 0)

\* lines 295-303: every channel through the one instance `standard`
StandardizePass ==
    /\ pc = "standardize"
    /\ \E st \in {PassOn(Xnormal_concat, "standard")} :
         /\ Xnormal_concat' = st.A
         /\ scalers' = st.sc
    /\ steps' = Append(steps, "scaler_fit")
    /\ pc' = "minmax"
    /\ UNCHANGED <<cvaeVars, loss, cfg, X, Y, labels, Xnormal, Xanomaly, labels_one_hot,
                   Xnormal_concat_tmp, avg_RFQ_Xnormal, fitParams, testParams,
                   data_test, condition>>

\* lines 307-315: min-max per channel group on the standardised array
MinMaxPass ==
    /\ pc = "minmax"
    /\ \E st \in {PassOn(Xnormal_concat, "minmax")} :
         /\ Xnormal_concat' = st.A
         /\ scalers' = st.sc
    /\ steps' = Append(steps, "scaler_fit")
    /\ pc' = "minmax_tmp"
    /\ UNCHANGED <<cvaeVars, loss, cfg, X, Y, labels, Xnormal, Xanomaly, labels_one_hot,
                   Xnormal_concat_tmp, avg_RFQ_Xnormal, fitParams, testParams,
                   data_test, condition>>

\* lines 319-327: min-max per channel group on the copy
MinMaxTmpPass ==
    /\ pc = "minmax_tmp"
    /\ \E st \in {PassOn(Xnormal_concat_tmp, "minmax")} :
         /\ Xnormal_concat_tmp' = st.A
         /\ scalers' = st.sc
    /\ steps' = Append(steps, "scaler_fit")
    /\ pc' = "standard_tmp"
    /\ UNCHANGED <<cvaeVars, loss, cfg, X, Y, labels, Xnormal, Xanomaly, labels_one_hot,
                   Xnormal_concat, avg_RFQ_Xnormal, fitParams, testParams,
                   data_test, condition>>

\* lines 331-339: standardisation per channel group on the copy
StandardTmpPass ==
    /\ pc = "standard_tmp"
    /\ \E st \in {PassOn(Xnormal_concat_tmp, "standard_group")} :
         /\ Xnormal_concat_tmp' = st.A
         /\ scalers' = st.sc
    /\ steps' = Append(steps, "scaler_fit")
    /\ pc' = "plot_first"
    /\ UNCHANGED <<cvaeVars, loss, cfg, X, Y, labels, Xnormal, Xanomaly, labels_one_hot,
                   Xnormal_concat, avg_RFQ_Xnormal, fitParams, testParams,
                   data_test, condition>>

\* lines 345-356: x_RFQ is rebound to the scaler `standard` (line 347), and
\* x_RFQ.shape (line 356) raises AttributeError
PlotFirst ==
    /\ pc = "plot_first"
    /\ pc' = "raised"
    /\ UNCHANGED <<cvaeVars, loss, dataVars>>

(***************************************************************************)
(* Lines 412-516: min-max fit, the test sample, the model, the evaluation. *)
(***************************************************************************)
\* lines 412-421
FitPass ==
    /\ pc = "fit"
    /\ \E st \in {PassOn(Xnormal_concat, "minmax")} :
         /\ Xnormal_concat' = st.A
         /\ scalers' = st.sc
         /\ fitParams' = st.used
    /\ steps' = Append(steps, "scaler_fit")
    /\ pc' = "take_test"
    /\ UNCHANGED <<cvaeVars, loss, cfg, X, Y, labels, Xnormal, Xanomaly, labels_one_hot,
                   Xnormal_concat_tmp, avg_RFQ_Xnormal, testParams, data_test, condition>>

\* lines 424-429: data_test = np.array(Xnormal_RFQ[525:526,:,:]), a copy
TakeTest ==
    /\ pc = "take_test"
    /\ data_test' = Slice(Xnormal["RFQ"], test_row, test_row + 1)
    /\ pc' = "transform"
    /\ UNCHANGED <<cvaeVars, loss, cfg, X, Y, labels, Xnormal, Xanomaly, labels_one_hot,
                   Xnormal_concat, Xnormal_concat_tmp, avg_RFQ_Xnormal, scalers,
                   fitParams, testParams, condition, steps>>

\* lines 430-438: scaler.transform per channel; on an empty data_test the
\* first transform raises ValueError (0 samples)
TransformLoop ==
    /\ pc = "transform"
    /\ IF Len(data_test) = 0
       THEN /\ pc' = "raised"
            /\ UNCHANGED <<data_test, testParams>>
       ELSE \E st \in {TransformPass([A |-> data_test, sc |-> scalers, used |-> NoParams], 0)} :
              /\ data_test' = st.A
              /\ testParams' = st.used
              /\ pc' = "build"
    /\ UNCHANGED <<cvaeVars, loss, cfg, X, Y, labels, Xnormal, Xanomaly, labels_one_hot,
                   Xnormal_concat, Xnormal_concat_tmp, avg_RFQ_Xnormal, scalers,
                   fitParams, condition, steps>>

\* lines 440-459: tensors, CVAE(input_dim, hidden_dim, latent_dim, condition_dim),
\* load_state_dict; the constructor draws the initial parameters from the generator
BuildModel ==
    /\ pc = "build"
    /\ model' = CVAE(input_dim, hidden_dim, latent_dim, condition_dim)
    /\ state_dict' \in StateDicts
    /\ training' = TRUE
    /\ bn' = BNInit
    /\ rng' = RngNext(rng)
    /\ pc' = "evaluate"
    /\ UNCHANGED <<calls, last, prev, loss, dataVars>>

\* the shape of data_test[0].unsqueeze(0): the files hold hidden_dim time steps
SampleShape == <<1, n_features, hidden_dim>>
\* labels_one_hot[524*1:524*1+1].unsqueeze(0)
ConditionRows == Slice(labels_one_hot, condition_row, condition_row + 1)
ConditionShape == <<1, Len(ConditionRows), Cardinality(SystemSet)>>
\* the network input for a scaled sample
SampleValue == <<(data_test[1].w[1][0] * FP) \div WaveOne>>
ConditionIndex == IF Len(ConditionRows) = 0 THEN 0
                  ELSE CHOOSE j \in 0..3 : ConditionRows[1][j] = 1

\* lines 462-467: model.eval(); under no_grad, model(sample, condition)
Evaluate ==
    /\ pc = "evaluate"
    /\ training' = FALSE
    /\ condition' = [rows |-> ConditionRows, shape |-> ConditionShape]
    /\ LET shape == ForwardShape(model, SampleShape, ConditionShape)
       IN IF shape = NoShape
          THEN /\ last' = [status |-> "error", xs |-> SampleShape, training |-> FALSE]
               /\ pc' = "raised"
               /\ UNCHANGED <<rng, bn, steps>>
          ELSE \E out \in {CVAEForward(state_dict, SampleValue, ConditionIndex, FALSE,
                                       rng, bn)} :
               /\ last' = [status |-> "ok", x |-> SampleValue, xs |-> SampleShape,
                           c |-> ConditionIndex, training |-> FALSE, shape |-> shape,
                           x_recon |-> out.x_recon, mu |-> out.mu, logvar |-> out.logvar]
               /\ rng' = out.rng
               /\ bn' = out.bn
               /\ steps' = Append(steps, "evaluation")
               /\ pc' = "plot_recon"
    /\ prev' = last
    /\ calls' = calls + 1
    /\ UNCHANGED <<model, state_dict, loss, cfg, X, Y, labels, Xnormal, Xanomaly,
                   labels_one_hot, Xnormal_concat, Xnormal_concat_tmp, avg_RFQ_Xnormal,
                   scalers, fitParams, testParams, data_test>>

\* The three blocks of the script, each entered from the state lines 1-257
\* leave: as written only the first block runs (exit() at line 293, and again
\* at line 411); the later blocks are what runs once the exit() in front of
\* them is taken out.
Blocks == {"avg_zeros", "standardize", "fit"}

NextBlocks ==
    \/ Load
    \/ CreateLabels
    \/ Partition
    \/ OneHot
    \/ \E b \in Blocks : ScalersAndConcat(b)
    \/ AvgZeros
    \/ AvgRebind
    \/ AccumulateLoop
    \/ DivideLoop
    \/ Exit293
    \/ StandardizePass
    \/ MinMaxPass
    \/ MinMaxTmpPass
    \/ StandardTmpPass
    \/ PlotFirst
    \/ FitPass
    \/ TakeTest
    \/ TransformLoop
    \/ BuildModel
    \/ Evaluate

SpecBlocks == Init /\ [][NextBlocks]_vars

(***************************************************************************)
(* Claims about the CVAE classes and loss_function.                        *)
(***************************************************************************)

CalledOnFullShape ==
    /\ last.status # "none"
    /\ model.input_dim = input_dim /\ model.seq_len = hidden_dim
    /\ last.xs[2] = input_dim /\ last.xs[3] = hidden_dim

\* C1 (as stated): a CVAE built with input_dim=14 and seq_len=4500, called on
\* any input of shape (batch, 14, 4500), returns a reconstruction of exactly
\* shape (batch, 14, 4500).
C1_AnyBatchAnyMode ==
    CalledOnFullShape => (last.status = "ok" /\ last.shape = last.xs)

\* C1 (amended): a CVAE built with input_dim=14 and seq_len=4500, called on an
\* input of shape (batch, 14, 4500) in evaluation mode, or in training mode
\* with batch >= 2, returns a reconstruction of exactly shape (batch, 14, 4500);
\* a training-mode call with batch = 1 raises in Encoder.bn0 and returns nothing.
C1_ShapeRoundTrip ==
    /\ (CalledOnFullShape /\ (~last.training \/ last.xs[1] >= 2))
          => (last.status = "ok" /\ last.shape = last.xs)
    /\ (CalledOnFullShape /\ last.training /\ last.xs[1] = 1)
          => last.status = "error"

C1_Witness ==
    /\ last.status = "ok"
    /\ model.seq_len = hidden_dim
    /\ last.training
    /\ last.xs = <<MaxBatch, input_dim, hidden_dim>>
    /\ last.shape = <<MaxBatch, input_dim, hidden_dim>>

\* C4: the KLD term of loss_function is exactly 0 when every element of mu
\* and of logvar is 0.
C4_KLDZeroAtStandardNormal ==
    (/\ loss.status = "ok"
     /\ \A j \in DOMAIN loss.mu : loss.mu[j] = 0 /\ loss.logvar[j] = 0)
    => loss.KLD = 0

\* C5: loss_function returns a value >= 0 for all finite inputs.
C5_LossNonNegative == loss.status = "ok" => loss.value >= 0

\* C6: every element of the reconstruction returned by Decoder.forward lies
\* in [0,1], in evaluation mode and in training mode.
C6_ReconInUnitInterval ==
    last.status = "ok" => \A j \in DOMAIN last.x_recon :
                             0 <= last.x_recon[j] /\ last.x_recon[j] <= FP

SameInputs ==
    /\ prev.status = "ok" /\ last.status = "ok"
    /\ prev.x = last.x /\ prev.xs = last.xs /\ prev.c = last.c

\* C7 (as stated): two successive CVAE.forward calls with the same (x, c)
\* and the same parameters return the same triple (x_recon, mu, logvar).
C7_SameTriple ==
    SameInputs => /\ prev.x_recon = last.x_recon
                  /\ prev.mu = last.mu
                  /\ prev.logvar = last.logvar

\* C7 (amended): in evaluation mode, two successive CVAE.forward calls with
\* the same (x, c) return the same mu and the same logvar (no batch-norm
\* statistic and no dropout mask carries over); the reconstruction is not
\* covered, because reparameterize advances the global generator.
C7_EvalSameMuLogvar ==
    (SameInputs /\ ~prev.training /\ ~last.training)
    => (prev.mu = last.mu /\ prev.logvar = last.logvar)

C7_Witness ==
    /\ SameInputs /\ ~prev.training /\ ~last.training
    /\ prev.mu = last.mu /\ prev.logvar = last.logvar
    /\ prev.x_recon # last.x_recon

(***************************************************************************)
(* Claims about the script.                                                *)
(***************************************************************************)
ConcatBuilt == pc \notin {"idle", "load", "labels", "partition", "onehot", "scalers"}

IsOneHotAt(row, pos) ==
    /\ DOMAIN row = 0..3
    /\ \A j \in 0..3 : row[j] = IF j = pos THEN 1 ELSE 0

\* C8: for every row k of the capped Xnormal_concat, labels_one_hot[k] has
\* length 4 with exactly one 1, at the system_indices value of the system
\* whose waveform row k holds, for any number of normal samples per system.
C8_OneHotAligned ==
    ConcatBuilt =>
        /\ Len(labels_one_hot) = Len(Xnormal_concat)
        /\ \A k \in 1..Len(Xnormal_concat) :
             IsOneHotAt(labels_one_hot[k], system_indices[Xnormal_concat[k].sys])

C8_Witness ==
    /\ pc = "avg_zeros"
    /\ cfg.nrun["RFQ"] > normal_cap /\ cfg.nrun["SCL"] = 1 /\ cfg.nfault = 1
    /\ Len(Xnormal_concat) = normal_cap + 3
    /\ Xnormal_concat[normal_cap + 3].sys = "SCL"
    /\ labels_one_hot[normal_cap + 3][3] = 1

IsSubsequence(sub, seq) ==
    \E pos \in [1..Len(sub) -> 1..Len(seq)] :
        /\ \A a \in 1..Len(sub) : seq[pos[a]] = sub[a]
        /\ \A a \in 1..(Len(sub) - 1) : pos[a] < pos[a + 1]

\* C9: a top-to-bottom run whose files load executes, in this order, the
\* averaging step, the scaler fitting step and the checkpoint-load and
\* evaluation step before the process terminates.
C9_PipelineRunsInOrder ==
    pc = "exited" => IsSubsequence(<<"averaging", "scaler_fit", "evaluation">>, steps)

\* C10: after the averaging step every sample of Xnormal_RFQ (index 0
\* included) and of X1 holds the values it had when loaded and partitioned.
C10_SamplesUnchanged ==
    pc \in {"exit293", "exited"} =>
        /\ \A j \in 1..Len(X["RFQ"]) : X["RFQ"][j].w = FileWave(cfg, "RFQ", j)
        /\ \A k \in 1..Len(Xnormal["RFQ"]) :
             Xnormal["RFQ"][k].w = FileWave(cfg, "RFQ", Xnormal["RFQ"][k].id)

AveragingDone ==
    /\ pc \in {"exit293", "exited"}
    /\ Len(Xnormal["RFQ"]) >= 524

\* the sum of the loaded values of the first n normal RFQ samples
OriginalSum(n, t, i) ==
    SumRange([k \in 1..n |-> FileWave(cfg, "RFQ", Xnormal["RFQ"][k].id)[t][i]], 1, n)

\* C11: when RFQ has at least 524 normal samples, after the loops of lines
\* 265-268 avg_RFQ_Xnormal[0, t, i] is the sum of the first 524 normal RFQ
\* samples' original values at (t, i) divided by 524, for every time step t
\* and every channel i (each sample counted once, each channel divided once).
C11_AverageOfFirst524 ==
    AveragingDone =>
        /\ Len(AvgRows) = 1
        /\ \A t \in 1..cfg.T : \A i \in Channels :
              AvgRows[1][t][i] * 524 = OriginalSum(524, t, i)

C11_Witness ==
    /\ AveragingDone
    /\ Len(Xnormal["RFQ"]) > 524
    /\ cfg.nfault = 1
    /\ \E i \in Channels :
          /\ AvgRows[1][1][i] * 524 = OriginalSum(524, 1, i)
          /\ AvgRows[1][1][i] # FileWave(cfg, "RFQ", Xnormal["RFQ"][1].id)[1][i]
          /\ AvgRows[1][1][i] > 0

EvaluationReached ==
    /\ condition # <<>>
    /\ \A s \in SystemSet : Len(Xnormal[s]) >= 524

====
